---- MODULE Spec2Model ----
(***************************************************************************)
(* LegalClear: the document lifecycle, the chat history and the browser    *)
(* client (frontend/src) that reads them through the HTTP API.             *)
(*                                                                         *)
(* The server (backend/server.py) is not among the sources; its operations *)
(* are modelled from the design document (spec.md, sections 3 to 7) and    *)
(* from the API contract (contracts.md).  The client wrappers (services/   *)
(* api.js) and the React components are modelled from their code.          *)
(***************************************************************************)
EXTENDS Integers, Sequences, FiniteSets, TLC

\* ------------------------------------------------------------------ bounds
MaxDocs == 2
MaxPosts == 2
MaxInFlight == 2

DocIds == 1..MaxDocs

\* Session identifiers the client can hold.  Math.random().toString(36)
\* .slice(2) yields the empty string when Math.random() returns 0.
Sessions == {"", "s1"}

\* ------------------------------------------------------------- data model
Statuses == {"uploaded", "analyzing", "analyzed", "error"}
Absent == "absent"

ChatMessage(d, s, t, k) ==
  [document_id |-> d, session_id |-> s, message_type |-> t, message |-> k]

VARIABLES
  nextId,      \* the identifier the next created Document gets
  status,      \* Document Store: id -> status, or Absent (never created, deleted)
  analyses,    \* Document Store: ids of the documents that have an Analysis
  call,        \* Analysis Collaborator call per document
  chat,        \* Document Store: the ChatMessage collection, in insertion order
  posts,       \* postMessage requests so far: k -> [doc, session, state]
  overlap,     \* (doc, session) pairs on which two postMessage calls overlapped
  lastResp     \* what the last API call of an external client returned

\* The DocumentAnalysis view (components/DocumentAnalysis.jsx) of one browser.
VARIABLES
  localStorage,  \* chat_session_<id> -> stored session identifier, or NoItem
  vId,           \* useParams().id of the mounted view, 0 when none is mounted
  vSessionId,    \* useState: sessionId
  vDocument,     \* useState: document (its status), Null before it is loaded
  vAnalysis,     \* useState: analysis is non-null
  vLoading,      \* useState: loading
  vIsPolling,    \* useState: isPolling
  vChatMessages, \* useState: chatMessages
  vInterval,     \* the polling effect's setInterval timer (its id), or NoTimer
  vFetch,        \* where fetchDocumentData is: idle, doc, analysis, history
  vHist,         \* fetchChatHistory requests of the mounted view in flight
  polls,         \* pollForAnalysis calls in flight: [id, stage, live] -> count
  summaries,     \* Firestore summaries collection: documentId -> records added
  toasts         \* "Analysis Complete" toasts shown

\* The chat sidebar of the view and its sendMessage request.
VARIABLES
  vChatInput,    \* useState: chatInput (a text, NoText when blank)
  vChatLoading,  \* useState: chatLoading
  vSend,         \* the sendMessage request of handleSendMessage in flight
  postText,      \* the text of the user message of post k (NoText: not a view's)
  typed          \* the texts the user has typed so far

lifecycleVars == <<nextId, status, analyses, call>>
chatVars == <<chat, posts, overlap>>
\* The module constants of services/api.js, computed when the bundle loads.
VARIABLES
  rawBackendUrl,   \* process.env.REACT_APP_BACKEND_URL || ""
  BACKEND_URL,     \* the normalized backend URL
  API              \* the axios baseURL

configVars == <<rawBackendUrl, BACKEND_URL, API>>

\* The DocumentChat widget (components/DocumentChat.jsx).
VARIABLES
  wId,            \* the documentId prop of the mounted widget, 0 when none
  wSessionId,     \* useState: sessionId
  wChatInput,     \* useState: chatInput
  wChatLoading,   \* useState: chatLoading
  wChatMessages,  \* useState: chatMessages
  wHist,          \* documents whose getChatHistory request is in flight
  wSends          \* the sendMessage requests of the widget in flight

widgetVars == <<wId, wSessionId, wChatInput, wChatLoading, wChatMessages, wHist,
                wSends>>

\* The Dashboard (components/Dashboard.jsx).
VARIABLES
  download        \* what the last handleDownload did


\* The UploadDocument page (components/UploadDocument, two versions).
VARIABLES
  uComponent,      \* which version of the page is open, or Closed
  uDragActive,     \* useState: dragActive
  uFile,           \* useState: file / selectedFile, NoFile when null
  uDocumentName,   \* useState: documentName
  uDocumentType,   \* useState: documentType, "" when none is chosen
  uIsUploading,    \* useState: isUploading
  uUploadProgress, \* useState: uploadProgress
  uInterval,       \* the attempts whose simulated-progress timer is running
  uRequest,        \* the uploadDocument request in flight, NoRequest when none
  uSent,           \* uploadDocument requests issued so far
  uToast,          \* the toast of the last handler, NoToast when it showed none
  uResult,         \* document_id of the upload whose redirect is pending, or 0
  uNavigated       \* the document the page last navigated to, or 0

uploadVars == <<uComponent, uDragActive, uFile, uDocumentName, uDocumentType, uIsUploading,
                uUploadProgress, uInterval, uRequest, uSent, uToast, uResult,
                uNavigated>>
sendVars == <<vChatInput, vChatLoading, vSend, postText, typed>>
viewVars == <<localStorage, vId, vSessionId, vDocument, vAnalysis, vLoading,
              vIsPolling, vChatMessages, vInterval, vFetch, vHist, polls,
              summaries, toasts, sendVars, uploadVars, configVars, widgetVars,
              download>>

vars == <<lifecycleVars, chatVars, lastResp, viewVars>>

docs == {d \in DocIds : status[d] # Absent}


\* ------------------------------------------------ Document Lifecycle Manager
\* createDocument: a valid upload whose text was extracted is persisted with
\* status uploaded; the identifier is fresh.
persistUploaded(d) ==
  /\ status' = [status EXCEPT ![d] = "uploaded"]
  /\ call' = [call EXCEPT ![d] = "notCalled"]
  /\ UNCHANGED analyses

\* createDocument when text extraction fails: recorded as status error, no
\* Analysis.
persistExtractionFailed(d) ==
  /\ status' = [status EXCEPT ![d] = "error"]
  /\ call' = [call EXCEPT ![d] = "extractionFailed"]
  /\ UNCHANGED analyses

CreateDocument ==
  /\ nextId <= MaxDocs
  /\ persistUploaded(nextId)
  /\ nextId' = nextId + 1
  /\ UNCHANGED <<chatVars, lastResp, viewVars>>

CreateDocumentExtractionFailed ==
  /\ nextId <= MaxDocs
  /\ persistExtractionFailed(nextId)
  /\ nextId' = nextId + 1
  /\ UNCHANGED <<chatVars, lastResp, viewVars>>

\* uploaded -> analyzing: the manager invokes the Analysis Collaborator.
startAnalysis(d) ==
  /\ status[d] = "uploaded"
  /\ status' = [status EXCEPT ![d] = "analyzing"]
  /\ call' = [call EXCEPT ![d] = "pending"]
  /\ UNCHANGED analyses

StartAnalysis ==
  /\ \E d \in docs : startAnalysis(d)
  /\ UNCHANGED <<nextId, chatVars, lastResp, viewVars>>

\* analyzing -> analyzed: the collaborator's result and the status are written
\* as one per-document write.
storeAnalysisTwoStep(d) ==
  /\ status[d] = "analyzing"
  /\ call[d] = "pending"
  /\ status' = [status EXCEPT ![d] = "analyzed"]
  /\ call' = [call EXCEPT ![d] = "ok"]
  /\ UNCHANGED analyses

storeAnalysis(d) ==
  /\ status[d] = "analyzing"
  /\ call[d] = "pending"
  /\ status' = [status EXCEPT ![d] = "analyzed"]
  /\ analyses' = analyses \cup {d}
  /\ call' = [call EXCEPT ![d] = "ok"]

AnalysisSucceeds ==
  /\ \E d \in docs : storeAnalysis(d)
  /\ UNCHANGED <<nextId, chatVars, lastResp, viewVars>>

\* collaborator failure: uploaded or analyzing -> error, no Analysis persisted.
recordFailureAnyState(d) ==
  /\ status[d] \in Statuses
  /\ status' = [status EXCEPT ![d] = "error"]
  /\ call' = [call EXCEPT ![d] = "failed"]
  /\ UNCHANGED analyses

recordFailure(d) ==
  /\ status[d] \in {"uploaded", "analyzing"}
  /\ status' = [status EXCEPT ![d] = "error"]
  /\ call' = [call EXCEPT ![d] = "failed"]
  /\ UNCHANGED analyses

AnalysisFails ==
  /\ \E d \in docs : recordFailure(d)
  /\ UNCHANGED <<nextId, chatVars, lastResp, viewVars>>

\* UpstreamTimeout: no response within the bounded wait is treated as
\* AnalysisFailed.
timeoutNever(d) ==
  /\ FALSE
  /\ UNCHANGED <<status, call, analyses>>

timeout(d) ==
  /\ status[d] = "analyzing"
  /\ call[d] = "pending"
  /\ status' = [status EXCEPT ![d] = "error"]
  /\ call' = [call EXCEPT ![d] = "timeout"]
  /\ UNCHANGED analyses

AnalysisTimeout ==
  /\ \E d \in docs : timeout(d)
  /\ UNCHANGED <<nextId, chatVars, lastResp, viewVars>>

\* deleteDocument: removes the Document, its Analysis and its Chat Messages.
RECURSIVE WithoutDocument(_, _)
WithoutDocument(s, d) ==
  IF s = <<>> THEN <<>>
  ELSE IF Head(s).document_id = d THEN WithoutDocument(Tail(s), d)
       ELSE <<Head(s)>> \o WithoutDocument(Tail(s), d)

deleteDocumentRecordOnly(d) ==
  /\ status[d] # Absent
  /\ status' = [status EXCEPT ![d] = Absent]
  /\ call' = [call EXCEPT ![d] = "none"]
  /\ UNCHANGED <<analyses, chat, posts>>

deleteDocument(d) ==
  /\ status[d] # Absent
  /\ status' = [status EXCEPT ![d] = Absent]
  /\ analyses' = analyses \ {d}
  /\ call' = [call EXCEPT ![d] = "none"]
  /\ chat' = WithoutDocument(chat, d)
  /\ posts' = [k \in DOMAIN posts |->
                 IF posts[k].doc = d /\ posts[k].state = "pending"
                 THEN [posts[k] EXCEPT !.state = "dropped"] ELSE posts[k]]

DeleteDocument ==
  /\ \E d \in docs : deleteDocument(d)
  /\ UNCHANGED <<nextId, overlap, lastResp, viewVars>>

\* ------------------------------------------------------ Chat Session Manager
postsOn(d, s) == {k \in DOMAIN posts : posts[k].doc = d /\ posts[k].session = s}

\* postMessage for a document that does not exist: NotFound, nothing appended.
rejectPostAfterAppend(d, s) ==
  /\ chat' = Append(chat, ChatMessage(d, s, "user", Len(posts) + 1))
  /\ posts' = Append(posts, [doc |-> d, session |-> s, state |-> "notFound"])
  /\ overlap' = overlap

rejectPost(d, s) ==
  /\ chat' = chat
  /\ posts' = Append(posts, [doc |-> d, session |-> s, state |-> "notFound"])
  /\ overlap' = overlap

\* postMessage, first step: the user message is appended on arrival.
appendUser(d, s, k) ==
  /\ chat' = Append(chat, ChatMessage(d, s, "user", k))
  /\ posts' = Append(posts, [doc |-> d, session |-> s, state |-> "pending"])
  /\ overlap' = IF \E j \in postsOn(d, s) : posts[j].state = "pending"
                THEN overlap \cup {<<d, s>>} ELSE overlap

\* postMessage, second step: the collaborator's reply is appended.
appendReplyFirst(k) ==
  /\ posts[k].state = "pending"
  /\ chat' = <<ChatMessage(posts[k].doc, posts[k].session, "assistant", k)>> \o chat
  /\ posts' = [posts EXCEPT ![k].state = "done"]

appendReply(k) ==
  /\ posts[k].state = "pending"
  /\ chat' = Append(chat, ChatMessage(posts[k].doc, posts[k].session, "assistant", k))
  /\ posts' = [posts EXCEPT ![k].state = "done"]

\* postMessage when the collaborator fails: the user message stays persisted
\* and the request returns an error.
RECURSIVE WithoutPost(_, _)
WithoutPost(s, k) ==
  IF s = <<>> THEN <<>>
  ELSE IF Head(s).message = k THEN WithoutPost(Tail(s), k)
       ELSE <<Head(s)>> \o WithoutPost(Tail(s), k)

replyFailedRollback(k) ==
  /\ posts[k].state = "pending"
  /\ chat' = WithoutPost(chat, k)
  /\ posts' = [posts EXCEPT ![k].state = "failed"]

replyFailed(k) ==
  /\ posts[k].state = "pending"
  /\ chat' = chat
  /\ posts' = [posts EXCEPT ![k].state = "failed"]

\* ------------------------------------------------------------- API Surface
HttpResp(code, st, an, h) ==
  [code |-> code, status |-> st, analysis |-> an, hist |-> h]

\* GET /api/documents/{id}
httpGetDocument(d) ==
  IF status[d] = Absent THEN HttpResp(404, "", 0, <<>>)
  ELSE HttpResp(200, status[d], 0, <<>>)

\* GET /api/documents/{id}/analysis  (404 if not yet available)
httpGetAnalysis(d) ==
  IF d \in analyses THEN HttpResp(200, "", d, <<>>)
  ELSE HttpResp(404, "", 0, <<>>)

\* GET /api/documents/{id}/chat?session_id=...: the document's messages, of
\* the given session when the query names one, in insertion order.
RECURSIVE Filter(_, _, _)
Filter(s, d, params) ==
  IF s = <<>> THEN <<>>
  ELSE IF /\ Head(s).document_id = d
          /\ \A sid \in params : Head(s).session_id = sid
       THEN <<Head(s)>> \o Filter(Tail(s), d, params)
       ELSE Filter(Tail(s), d, params)

httpGetChat(d, params) ==
  IF status[d] = Absent THEN HttpResp(404, "", 0, <<>>)
  ELSE HttpResp(200, "", 0, Filter(chat, d, params))

\* ------------------------------------------------- client: services/api.js
\* URLs are sequences of characters; "h" stands for any character other
\* than the slash.
MaxUrlLen == 6
Chars == {"h", "/"}
Urls == UNION {[1..n -> Chars] : n \in 0..MaxUrlLen}

Str(path) ==
  CASE path = "/api" -> <<"/", "a", "p", "i">>
    [] path = "/healthz" -> <<"/", "h", "e", "a", "l", "t", "h", "z">>

endsWith(str, c) == Len(str) > 0 /\ str[Len(str)] = c

\* rawBackendUrl.endsWith("/") ? rawBackendUrl.slice(0, -1) : rawBackendUrl
normalize(raw) ==
  IF endsWith(raw, "/") THEN SubSeq(raw, 1, Len(raw) - 1) ELSE raw

\* `${BACKEND_URL}/healthz` of healthAPI.check
healthUrl == BACKEND_URL \o Str("/healthz")

\* The bundle is built and loaded with REACT_APP_BACKEND_URL = raw (unset
\* gives the empty string).
LoadConfig ==
  /\ \E raw \in Urls :
       /\ rawBackendUrl' = raw
       /\ BACKEND_URL' = normalize(raw)
       /\ API' = normalize(raw) \o Str("/api")
  /\ UNCHANGED <<lifecycleVars, chatVars, lastResp, localStorage, vId, vSessionId,
                 vDocument, vAnalysis, vLoading, vIsPolling, vChatMessages,
                 vInterval, vFetch, vHist, polls, summaries, toasts, sendVars,
                 uploadVars, widgetVars, download>>

\* The axios response interceptor: a wrapper returns response.data, or throws
\* the error the interceptor made of the failed response.
NoData == [status |-> "", analysis |-> 0, hist |-> <<>>]

responseInterceptor(r) ==
  IF r.code = 200
  THEN [ok |-> TRUE, error |-> "",
        data |-> [status |-> r.status, analysis |-> r.analysis, hist |-> r.hist]]
  ELSE IF r.code = 404
  THEN [ok |-> FALSE, error |-> "Resource not found", data |-> NoData]
  ELSE IF r.code = 400
  THEN [ok |-> FALSE, error |-> "Bad request", data |-> NoData]
  ELSE IF r.code >= 500
  THEN [ok |-> FALSE, error |-> "Server error. Please try again later.",
        data |-> NoData]
  ELSE [ok |-> FALSE, error |-> "axios", data |-> NoData]

\* mockDocuments[0]: the fixture the wrappers replaced (its status is analyzed).
getDocumentFromMock(documentId) ==
  [ok |-> TRUE, error |-> "",
   data |-> [status |-> "analyzed", analysis |-> 0, hist |-> <<>>]]

getDocument(documentId) == responseInterceptor(httpGetDocument(documentId))

\* The analysis wrapper requesting /documents/{id} instead of .../analysis.
getAnalysisFromDocumentUrl(documentId) ==
  LET r == responseInterceptor(httpGetDocument(documentId))
  IN  IF r.ok THEN [r EXCEPT !.data.analysis = documentId] ELSE r

getAnalysis(documentId) == responseInterceptor(httpGetAnalysis(documentId))

Truthy(sessionId) == sessionId # ""

getChatHistory(documentId, sessionId) ==
  responseInterceptor(
    httpGetChat(documentId, IF Truthy(sessionId) THEN {sessionId} ELSE {}))

Resp(op, d, r) ==
  [op |-> op, doc |-> d, ok |-> r.ok, error |-> r.error, data |-> r.data]

NoResp == [op |-> "none", doc |-> 0, ok |-> FALSE, error |-> "", data |-> NoData]

\* ------------------------------------------------- external client requests
CallGetDocument(d) ==
  /\ lastResp' = Resp("getDocument", d, getDocument(d))
  /\ UNCHANGED <<lifecycleVars, chatVars, viewVars>>

CallGetAnalysis(d) ==
  /\ lastResp' = Resp("getAnalysis", d, getAnalysis(d))
  /\ UNCHANGED <<lifecycleVars, chatVars, viewVars>>

GetDocument == \E d \in DocIds : CallGetDocument(d)

\* POST /api/documents/{id}/analyze of the API contract: "Trigger analysis
\* for uploaded document", answered with {status, estimated_time}.  No
\* wrapper of services/api.js calls it; any HTTP client can.
CallAnalyze(d) ==
  /\ IF status[d] = "uploaded"
     THEN startAnalysis(d)
     ELSE UNCHANGED <<status, call, analyses>>
  /\ lastResp' =
       Resp("analyze", d,
            responseInterceptor(
              IF status[d] = Absent THEN HttpResp(404, "", 0, <<>>)
              ELSE HttpResp(200, status'[d], 0, <<>>)))
  /\ UNCHANGED <<nextId, chatVars, viewVars>>

Analyze == \E d \in DocIds : CallAnalyze(d)

GetAnalysis == \E d \in DocIds : CallGetAnalysis(d)

\* sendMessage: POST /api/documents/{id}/chat with {message, session_id}.
\* posts logs every call with its outcome: notFound (404), pending, done (the
\* reply was returned), failed (5xx), dropped (the document was deleted
\* before the reply).
SendMessageNotFound ==
  /\ Len(posts) < MaxPosts
  /\ \E d \in DocIds \ docs, s \in Sessions : rejectPost(d, s)
  /\ UNCHANGED <<lifecycleVars, lastResp, viewVars>>

SendMessageArrives ==
  /\ Len(posts) < MaxPosts
  /\ \E d \in docs, s \in Sessions : appendUser(d, s, Len(posts) + 1)
  /\ UNCHANGED <<lifecycleVars, lastResp, viewVars>>

SendMessageReplied ==
  /\ \E k \in DOMAIN posts : appendReply(k)
  /\ UNCHANGED <<lifecycleVars, overlap, lastResp, viewVars>>

SendMessageFailed ==
  /\ \E k \in DOMAIN posts : replyFailed(k)
  /\ UNCHANGED <<lifecycleVars, overlap, lastResp, viewVars>>

\* ------------------------------------- client: components/DocumentAnalysis.jsx
Null == "null"
NoItem == "noItem"

\* The texts a user types; NoText is the blank input.
MaxTexts == 2
Texts == 1..MaxTexts
NoText == 0
NoSend == [state |-> "idle", text |-> NoText, k |-> 0]

PollStages == {"doc", "analysis", "saving"}
PollKinds == [id : DocIds, stage : PollStages, live : BOOLEAN]

RECURSIVE SumOver(_, _)
SumOver(f, S) ==
  IF S = {} THEN 0
  ELSE LET x == CHOOSE y \in S : TRUE IN f[x] + SumOver(f, S \ {x})

InFlight(b) == SumOver(b, PollKinds)
Add(b, p) == [b EXCEPT ![p] = @ + 1]
Remove(b, p) == [b EXCEPT ![p] = @ - 1]
LivePoll(d) == [id |-> d, stage |-> "doc", live |-> TRUE]

\* useState initializer of sessionId: the stored identifier if it is truthy,
\* else a new one (newId is Math.random().toString(36).slice(2)) that is stored.
initSession(d, newId) ==
  IF localStorage[d] # NoItem /\ Truthy(localStorage[d])
  THEN /\ vSessionId' = localStorage[d]
       /\ UNCHANGED localStorage
  ELSE /\ vSessionId' = newId
       /\ localStorage' = [localStorage EXCEPT ![d] = newId]

\* The polling effect, run after a render in which document or analysis
\* changed: its cleanup clears the previous timer; when the document is
\* loaded, not analyzed and there is no analysis, it sets isPolling, calls
\* pollForAnalysis at once and starts a new timer.
\* Every setInterval call returns a new timer id.
NoTimer == 0
newTimer(old) == IF old = 1 THEN 2 ELSE 1

startsPolling(doc, an) == doc # Null /\ doc # "analyzed" /\ ~an

\* The effect without its cleanup function.
pollingEffectNoCleanup(doc, an, isPolling, inFlight) ==
  IF startsPolling(doc, an)
  THEN /\ vIsPolling' = TRUE
       /\ polls' = Add(inFlight, LivePoll(vId))
       /\ vInterval' = newTimer(vInterval)
  ELSE /\ vIsPolling' = isPolling
       /\ polls' = inFlight
       /\ vInterval' = vInterval

pollingEffect(doc, an, isPolling, inFlight) ==
  IF startsPolling(doc, an)
  THEN /\ vIsPolling' = TRUE
       /\ polls' = Add(inFlight, LivePoll(vId))
       /\ vInterval' = newTimer(vInterval)
  ELSE /\ vIsPolling' = isPolling
       /\ polls' = inFlight
       /\ vInterval' = NoTimer

\* Mounting the view for /document/<d>: the initial state, then the effects:
\* fetchDocumentData() and fetchChatHistory(); the polling effect does nothing
\* while document is null.
Mount ==
  /\ vId = 0
  /\ wId = 0
  /\ \E d \in DocIds, newId \in Sessions :
       /\ vId' = d
       /\ initSession(d, newId)
  /\ vDocument' = Null
  /\ vAnalysis' = FALSE
  /\ vLoading' = TRUE
  /\ vIsPolling' = FALSE
  /\ vChatMessages' = <<>>
  /\ vInterval' = NoTimer
  /\ vFetch' = "doc"
  /\ vHist' = 1
  /\ UNCHANGED <<lifecycleVars, chatVars, lastResp, configVars, widgetVars, download, uploadVars, sendVars, polls, summaries,
                 toasts>>

\* Unmounting: the polling effect's cleanup clears the timer; requests in
\* flight go on, their state updates are dropped.
Unmount ==
  /\ vId # 0
  /\ vId' = 0
  /\ vSessionId' = ""
  /\ vDocument' = Null
  /\ vAnalysis' = FALSE
  /\ vLoading' = FALSE
  /\ vIsPolling' = FALSE
  /\ vChatMessages' = <<>>
  /\ vInterval' = NoTimer
  /\ vFetch' = "idle"
  /\ vHist' = 0
  /\ polls' = [p \in PollKinds |->
                 IF p.live THEN 0 ELSE polls[p] + polls[[p EXCEPT !.live = TRUE]]]
  /\ vChatInput' = NoText
  /\ vChatLoading' = FALSE
  /\ vSend' = NoSend
  /\ UNCHANGED <<lifecycleVars, chatVars, lastResp, configVars, widgetVars, download, uploadVars, localStorage, summaries,
                 toasts, postText, typed>>

\* fetchDocumentData after await getDocument(id).
FetchDocArrives ==
  /\ vId # 0
  /\ vFetch = "doc"
  /\ LET r == getDocument(vId) IN
       IF r.ok
       THEN /\ startsPolling(r.data.status, vAnalysis) => InFlight(polls) < MaxInFlight
            /\ vDocument' = r.data.status
            /\ IF r.data.status = "analyzed"
               THEN vFetch' = "analysis" /\ UNCHANGED vLoading
               ELSE vFetch' = "idle" /\ vLoading' = FALSE
            /\ pollingEffect(r.data.status, vAnalysis, vIsPolling, polls)
       ELSE /\ vFetch' = "idle"
            /\ vLoading' = FALSE
            /\ UNCHANGED <<vDocument, vIsPolling, polls, vInterval>>
  /\ UNCHANGED <<lifecycleVars, chatVars, lastResp, configVars, widgetVars, download, uploadVars, sendVars, localStorage, vId, vSessionId,
                 vAnalysis, vChatMessages, vHist, summaries, toasts>>

\* fetchDocumentData after await getAnalysis(id).
FetchAnalysisArrives ==
  /\ vId # 0
  /\ vFetch = "analysis"
  /\ LET r == getAnalysis(vId) IN
       IF r.ok
       THEN /\ vAnalysis' = TRUE
            /\ vFetch' = "history"
            /\ UNCHANGED vLoading
            /\ pollingEffect(vDocument, TRUE, vIsPolling, polls)
       ELSE /\ vFetch' = "idle"
            /\ vLoading' = FALSE
            /\ UNCHANGED <<vAnalysis, vIsPolling, polls, vInterval>>
  /\ UNCHANGED <<lifecycleVars, chatVars, lastResp, configVars, widgetVars, download, uploadVars, sendVars, localStorage, vId, vSessionId,
                 vDocument, vChatMessages, vHist, summaries, toasts>>

\* fetchChatHistory after await getChatHistory(id, sessionId).
setChatMessages(r) ==
  vChatMessages' = IF r.ok THEN r.data.hist ELSE vChatMessages

\* fetchDocumentData after await fetchChatHistory(), and its finally block.
FetchHistoryArrives ==
  /\ vId # 0
  /\ vFetch = "history"
  /\ setChatMessages(getChatHistory(vId, vSessionId))
  /\ vFetch' = "idle"
  /\ vLoading' = FALSE
  /\ UNCHANGED <<lifecycleVars, chatVars, lastResp, configVars, widgetVars, download, uploadVars, sendVars, localStorage, vId, vSessionId,
                 vDocument, vAnalysis, vIsPolling, vInterval, vHist, polls,
                 summaries, toasts>>

\* A fetchChatHistory() that was not awaited (mount, polling completion).
HistArrives ==
  /\ vId # 0
  /\ vHist > 0
  /\ setChatMessages(getChatHistory(vId, vSessionId))
  /\ vHist' = vHist - 1
  /\ UNCHANGED <<lifecycleVars, chatVars, lastResp, configVars, widgetVars, download, uploadVars, sendVars, localStorage, vId, vSessionId,
                 vDocument, vAnalysis, vLoading, vIsPolling, vInterval, vFetch,
                 polls, summaries, toasts>>

\* setInterval(pollForAnalysis, 3000) fires.
TimerTick ==
  /\ vInterval # NoTimer
  /\ InFlight(polls) < MaxInFlight
  /\ polls' = Add(polls, LivePoll(vId))
  /\ UNCHANGED <<lifecycleVars, chatVars, lastResp, configVars, widgetVars, download, uploadVars, sendVars, localStorage, vId, vSessionId,
                 vDocument, vAnalysis, vLoading, vIsPolling, vChatMessages,
                 vInterval, vFetch, vHist, summaries, toasts>>

\* pollForAnalysis after await getDocument(id): setDocument(docData), and for
\* status analyzed the request for the analysis; a failed request is logged.
pollGotDocument(p) ==
  /\ p.stage = "doc"
  /\ polls[p] > 0
  /\ LET r == getDocument(p.id)
         rest == Remove(polls, p)
         next == IF r.ok /\ r.data.status = "analyzed"
                 THEN Add(rest, [p EXCEPT !.stage = "analysis"]) ELSE rest
     IN  IF r.ok /\ p.live
         THEN /\ vDocument' = r.data.status
              /\ pollingEffect(r.data.status, vAnalysis, vIsPolling, next)
         ELSE /\ polls' = next
              /\ UNCHANGED <<vDocument, vIsPolling, vInterval>>

PollDocArrives ==
  /\ \E p \in PollKinds : pollGotDocument(p)
  /\ UNCHANGED <<lifecycleVars, chatVars, lastResp, configVars, widgetVars, download, uploadVars, sendVars, localStorage, vId, vSessionId,
                 vAnalysis, vLoading, vChatMessages, vFetch, vHist, summaries,
                 toasts>>

\* pollForAnalysis after await getAnalysis(id): setAnalysis, setIsPolling(false)
\* and the call of saveSummaryToFirestore; a failed request is logged
\* ("continuing to poll").
pollGotAnalysis(p) ==
  /\ p.stage = "analysis"
  /\ polls[p] > 0
  /\ LET r == getAnalysis(p.id)
         rest == Remove(polls, p)
     IN  IF r.ok
         THEN IF p.live
              THEN /\ vAnalysis' = TRUE
                   /\ pollingEffect(vDocument, TRUE, FALSE,
                                    Add(rest, [p EXCEPT !.stage = "saving"]))
              ELSE /\ polls' = Add(rest, [p EXCEPT !.stage = "saving"])
                   /\ UNCHANGED <<vAnalysis, vIsPolling, vInterval>>
         ELSE /\ polls' = rest
              /\ UNCHANGED <<vAnalysis, vIsPolling, vInterval>>

PollAnalysisArrives ==
  /\ \E p \in PollKinds : pollGotAnalysis(p)
  /\ UNCHANGED <<lifecycleVars, chatVars, lastResp, configVars, widgetVars, download, uploadVars, sendVars, localStorage, vId, vSessionId,
                 vDocument, vLoading, vChatMessages, vFetch, vHist, summaries,
                 toasts>>

\* pollForAnalysis after await saveSummaryToFirestore(...): addDoc added the
\* record or failed; then fetchChatHistory(), the toast, clearInterval of the
\* timer of the effect run that started this poll (already cleared).
pollSaved(p, added) ==
  /\ p.stage = "saving"
  /\ polls[p] > 0
  /\ polls' = Remove(polls, p)
  /\ summaries' = IF added THEN [summaries EXCEPT ![p.id] = @ + 1] ELSE summaries
  /\ toasts' = toasts + 1
  /\ vHist' = IF p.live THEN vHist + 1 ELSE vHist

PollSaved ==
  /\ \E p \in PollKinds, added \in BOOLEAN : pollSaved(p, added)
  /\ UNCHANGED <<lifecycleVars, chatVars, lastResp, configVars, widgetVars, download, uploadVars, sendVars, localStorage, vId,
                 vSessionId, vDocument, vAnalysis, vLoading, vIsPolling,
                 vChatMessages, vInterval, vFetch>>


\* fetchDocumentData when await getAnalysis(id) throws although the Analysis
\* exists (network error, the axios timeout, a 5xx): the inner catch logs
\* "Analysis not yet available", finally resets loading.
FetchAnalysisFails ==
  /\ vId # 0
  /\ vFetch = "analysis"
  /\ vFetch' = "idle"
  /\ vLoading' = FALSE
  /\ UNCHANGED <<lifecycleVars, chatVars, lastResp, configVars, widgetVars, download, uploadVars, sendVars, localStorage, vId, vSessionId,
                 vDocument, vAnalysis, vIsPolling, vChatMessages, vInterval,
                 vHist, polls, summaries, toasts>>

\* pollForAnalysis when await getAnalysis(id) throws: the inner catch logs
\* "Analysis not yet available, continuing to poll".
pollAnalysisFailed(p) ==
  /\ p.stage = "analysis"
  /\ polls[p] > 0
  /\ polls' = Remove(polls, p)

PollAnalysisFails ==
  /\ \E p \in PollKinds : pollAnalysisFailed(p)
  /\ UNCHANGED <<lifecycleVars, chatVars, lastResp, configVars, widgetVars, download, uploadVars, sendVars, localStorage, vId, vSessionId,
                 vDocument, vAnalysis, vLoading, vIsPolling, vChatMessages,
                 vInterval, vFetch, vHist, summaries, toasts>>

\* ---------------------------------- the chat sidebar of DocumentAnalysis.jsx
\* The sidebar is rendered once the view is past its early returns.
ChatShown == vId # 0 /\ ~vLoading /\ vDocument # Null

\* userMessage: the local record handleSendMessage shows at once; its id is
\* Date.now(), not the identifier the server gives the persisted message.
\* Server messages carry their post number (positive), local ones the
\* negated text.
userMessage(text) == ChatMessage(vId, vSessionId, "user", 0 - text)

TextOf(m) == IF m.message < 0 THEN 0 - m.message ELSE postText[m.message]

\* prev.slice(0, -1)
sliceLast(prev) == SubSeq(prev, 1, Len(prev) - 1)

\* onChange of the input (disabled while chatLoading); every text is typed
\* at most once, so a text sent twice is a retry.
TypeInput ==
  /\ ChatShown
  /\ ~vChatLoading
  /\ \E t \in Texts \ typed :
       /\ vChatInput' = t
       /\ typed' = typed \cup {t}
  /\ UNCHANGED <<lifecycleVars, chatVars, lastResp, configVars, widgetVars, download, uploadVars, localStorage, vId, vSessionId,
                 vDocument, vAnalysis, vLoading, vIsPolling, vChatMessages,
                 vInterval, vFetch, vHist, polls, summaries, toasts,
                 vChatLoading, vSend, postText>>

\* handleSendMessage up to its await: the user message is shown, the input is
\* cleared, chatLoading is set and the request is sent.
HandleSendMessage ==
  /\ ChatShown
  /\ vChatInput # NoText
  /\ ~vChatLoading
  /\ Len(posts) < MaxPosts
  /\ vChatMessages' = Append(vChatMessages, userMessage(vChatInput))
  /\ vChatInput' = NoText
  /\ vChatLoading' = TRUE
  /\ vSend' = [state |-> "sent", text |-> vChatInput, k |-> 0]
  /\ UNCHANGED <<lifecycleVars, chatVars, lastResp, configVars, widgetVars, download, uploadVars, localStorage, vId, vSessionId,
                 vDocument, vAnalysis, vLoading, vIsPolling, vInterval, vFetch,
                 vHist, polls, summaries, toasts, postText, typed>>

\* The request reaches the server: postMessage starts (or answers 404).
ViewSendArrives ==
  /\ vSend.state = "sent"
  /\ LET k == Len(posts) + 1 IN
       /\ IF status[vId] = Absent
          THEN rejectPost(vId, vSessionId)
          ELSE appendUser(vId, vSessionId, k)
       /\ postText' = [postText EXCEPT ![k] = vSend.text]
       /\ vSend' = [vSend EXCEPT !.state = "atServer", !.k = k]
  /\ UNCHANGED <<lifecycleVars, lastResp, configVars, widgetVars, download, uploadVars, localStorage, vId, vSessionId,
                 vDocument, vAnalysis, vLoading, vIsPolling, vChatMessages,
                 vInterval, vFetch, vHist, polls, summaries, toasts,
                 vChatInput, vChatLoading, typed>>

\* handleSendMessage after its await: the reply is appended, or (catch) the
\* last displayed message is removed and the input restored; finally
\* chatLoading is reset.
sendSettled(ok) ==
  /\ vChatMessages' =
       IF ok
       THEN Append(vChatMessages, ChatMessage(vId, vSessionId, "assistant", vSend.k))
       ELSE sliceLast(vChatMessages)
  /\ vChatInput' = IF ok THEN vChatInput ELSE vSend.text
  /\ vChatLoading' = FALSE
  /\ vSend' = NoSend

SendResponseArrives ==
  /\ vSend.state = "atServer"
  /\ posts[vSend.k].state # "pending"
  /\ sendSettled(posts[vSend.k].state = "done")
  /\ UNCHANGED <<lifecycleVars, chatVars, lastResp, configVars, widgetVars, download, uploadVars, localStorage, vId, vSessionId,
                 vDocument, vAnalysis, vLoading, vIsPolling, vInterval, vFetch,
                 vHist, polls, summaries, toasts, postText, typed>>

\* The axios timeout (30 s) or a network error ends the request at the
\* client; what the server has started goes on.
SendTimesOut ==
  /\ vSend.state \in {"sent", "atServer"}
  /\ sendSettled(FALSE)
  /\ UNCHANGED <<lifecycleVars, chatVars, lastResp, configVars, widgetVars, download, uploadVars, localStorage, vId, vSessionId,
                 vDocument, vAnalysis, vLoading, vIsPolling, vInterval, vFetch,
                 vHist, polls, summaries, toasts, postText, typed>>

\* ------------------------------------------ client: components/UploadDocument
\* The page exists in two versions: part_005 (validateForm) and the earlier
\* part_004.
Components == {"part_004", "part_005"}
Closed == "closed"
MaxUploads == 2

MaxFileSize == 10 * 1024 * 1024

allowedTypes ==
  {"application/pdf", "application/msword",
   "application/vnd.openxmlformats-officedocument.wordprocessingml.document",
   "text/plain"}

\* The files a user can pick or drop: a MIME type, a size in bytes, a name.
MimeTypes ==
  {"application/pdf",
   "application/vnd.openxmlformats-officedocument.wordprocessingml.document",
   "image/png"}
Sizes == {1, MaxFileSize, MaxFileSize + 1}
FileNames == {"lease.png", ".pdf"}
Files == [type : MimeTypes, size : Sizes, name : FileNames]
NoFile == [type |-> "null", size |-> 0, name |-> ""]

DocumentNames == {"", " ", "lease"}
DocumentTypes == {"", "lease"}
NoRequest == [file |-> NoFile, document_name |-> "", document_type |-> ""]
NoToast == "none"

\* file.name.replace(/\.[^/.]+$/, "")
stripExtension(name) ==
  CASE name = "lease.png" -> "lease"
    [] name = ".pdf" -> ""
    [] OTHER -> name

\* str.trim() is empty; !str
blank(str) == str \in {"", " "}
falsy(str) == str = ""

typeAllowedByExtension(file) == file.name \in {".pdf"}

typeAllowed(file) == file.type \in allowedTypes

tooLargeFromCeiling(file) == file.size >= MaxFileSize

tooLarge(file) == file.size > MaxFileSize

\* handleFile: the type check, the size check, then the file is selected and
\* an empty document name is filled from the file name.
handleFile(file) ==
  IF ~typeAllowed(file)
  THEN /\ uToast' = "Invalid file type"
       /\ UNCHANGED <<uFile, uDocumentName>>
  ELSE IF tooLarge(file)
  THEN /\ uToast' = "File too large"
       /\ UNCHANGED <<uFile, uDocumentName>>
  ELSE /\ uFile' = file
       /\ uDocumentName' = IF falsy(uDocumentName)
                           THEN stripExtension(file.name) ELSE uDocumentName
       /\ uToast' = NoToast

\* The page is opened (mounted).
OpenUpload ==
  /\ uComponent = Closed
  /\ \E c \in Components : uComponent' = c
  /\ UNCHANGED <<lifecycleVars, chatVars, lastResp, configVars, widgetVars, download, localStorage, vId, vSessionId,
                 vDocument, vAnalysis, vLoading, vIsPolling, vChatMessages,
                 vInterval, vFetch, vHist, polls, summaries, toasts, sendVars,
                 uDragActive, uFile, uDocumentName, uDocumentType,
                 uIsUploading, uUploadProgress, uInterval, uRequest, uSent,
                 uToast, uResult, uNavigated>>

\* handleDrag: dragenter and dragover set dragActive, dragleave resets it.
\* part_004 does not render the drop zone while uploading.
HandleDrag ==
  /\ uComponent # Closed
  /\ uComponent = "part_004" => ~uIsUploading
  /\ uDragActive' = ~uDragActive
  /\ UNCHANGED <<lifecycleVars, chatVars, lastResp, configVars, widgetVars, download, localStorage, vId, vSessionId,
                 vDocument, vAnalysis, vLoading, vIsPolling, vChatMessages,
                 vInterval, vFetch, vHist, polls, summaries, toasts, sendVars,
                 uComponent, uFile, uDocumentName, uDocumentType, uIsUploading,
                 uUploadProgress, uInterval, uRequest, uSent, uToast, uResult,
                 uNavigated>>

uploadFormUnchanged ==
  UNCHANGED <<lifecycleVars, chatVars, lastResp, configVars, widgetVars, download, localStorage, vId, vSessionId,
              vDocument, vAnalysis, vLoading, vIsPolling, vChatMessages,
              vInterval, vFetch, vHist, polls, summaries, toasts, sendVars,
              uComponent, uIsUploading, uUploadProgress, uInterval, uRequest,
              uSent, uResult, uNavigated>>

\* handleDrop (after a dragover): dragActive is reset and
\* e.dataTransfer.files[0] goes to handleFile.
HandleDrop ==
  /\ uComponent # Closed
  /\ uComponent = "part_004" => ~uIsUploading
  /\ uDragActive
  /\ uDragActive' = FALSE
  /\ \E file \in Files : handleFile(file)
  /\ UNCHANGED uDocumentType
  /\ uploadFormUnchanged

\* handleFileInput: e.target.files[0] goes to handleFile; the picker is
\* disabled (part_005) or not rendered (part_004) while uploading.
HandleFileInput ==
  /\ uComponent # Closed
  /\ ~uIsUploading
  /\ \E file \in Files : handleFile(file)
  /\ UNCHANGED <<uDocumentType, uDragActive>>
  /\ uploadFormUnchanged

\* removeFile (part_005), onClick={() => setSelectedFile(null)} (part_004).
RemoveFile ==
  /\ uComponent # Closed
  /\ uFile # NoFile
  /\ ~uIsUploading
  /\ uFile' = NoFile
  /\ uDocumentName' = IF uComponent = "part_005" THEN "" ELSE uDocumentName
  /\ uToast' = NoToast
  /\ UNCHANGED <<uDocumentType, uDragActive>>
  /\ uploadFormUnchanged

\* onChange of the name field and of the type select (disabled while
\* uploading).
EditForm ==
  /\ uComponent # Closed
  /\ ~uIsUploading
  /\ \E n \in DocumentNames, t \in DocumentTypes :
       /\ <<n, t>> # <<uDocumentName, uDocumentType>>
       /\ uDocumentName' = n
       /\ uDocumentType' = t
  /\ uToast' = NoToast
  /\ UNCHANGED <<uFile, uDragActive>>
  /\ uploadFormUnchanged

\* validateForm (part_005); the test at the head of handleUpload (part_004).
\* The result is the toast of the first missing input, NoToast when the form
\* is complete.
validateForm ==
  IF uComponent = "part_005"
  THEN IF uFile = NoFile THEN "No file selected"
       ELSE IF blank(uDocumentName) THEN "Document name required"
       ELSE IF falsy(uDocumentType) THEN "Document type required"
       ELSE NoToast
  ELSE IF uFile = NoFile \/ falsy(uDocumentType) THEN "Missing information"
       ELSE NoToast

\* The Upload button is enabled.
uploadEnabled ==
  /\ uFile # NoFile
  /\ ~falsy(uDocumentType)
  /\ ~uIsUploading
  /\ uComponent = "part_005" => ~falsy(uDocumentName)

\* handleUpload up to its await: validation, then isUploading, the progress
\* timer and the uploadDocument request.
HandleUpload ==
  /\ uComponent # Closed
  /\ uploadEnabled
  /\ uSent < MaxUploads
  /\ IF validateForm # NoToast
     THEN /\ uToast' = validateForm
          /\ UNCHANGED <<uIsUploading, uUploadProgress, uInterval, uRequest, uSent>>
     ELSE /\ uToast' = NoToast
          /\ uIsUploading' = TRUE
          /\ uUploadProgress' = 0
          /\ uInterval' = uInterval \cup {uSent + 1}
          /\ uRequest' = [file |-> uFile, document_name |-> uDocumentName,
                          document_type |-> uDocumentType]
          /\ uSent' = uSent + 1
  /\ UNCHANGED <<lifecycleVars, chatVars, lastResp, configVars, widgetVars, download, localStorage, vId, vSessionId,
                 vDocument, vAnalysis, vLoading, vIsPolling, vChatMessages,
                 vInterval, vFetch, vHist, polls, summaries, toasts, sendVars,
                 uComponent, uDragActive, uFile, uDocumentName, uDocumentType,
                 uResult, uNavigated>>

\* handleUpload after its await, the request succeeded: the document was
\* created; this attempt's timer is cleared, progress is 100 and the
\* redirect is scheduled (setTimeout, 500 ms).
UploadSucceeds ==
  /\ uRequest # NoRequest
  /\ nextId <= MaxDocs
  /\ persistUploaded(nextId)
  /\ nextId' = nextId + 1
  /\ uUploadProgress' = 100
  /\ uInterval' = uInterval \ {uSent}
  /\ uRequest' = NoRequest
  /\ uToast' = NoToast
  /\ uResult' = nextId
  /\ UNCHANGED <<chatVars, lastResp, configVars, widgetVars, download, localStorage, vId, vSessionId,
                 vDocument, vAnalysis, vLoading, vIsPolling, vChatMessages,
                 vInterval, vFetch, vHist, polls, summaries, toasts, sendVars,
                 uComponent, uDragActive, uFile, uDocumentName, uDocumentType,
                 uIsUploading, uSent, uNavigated>>

\* handleUpload's catch block.  In part_004 progressInterval is declared
\* inside the try block and the catch block does not clear it.
UploadFails ==
  /\ uRequest # NoRequest
  /\ uIsUploading' = FALSE
  /\ uUploadProgress' = 0
  /\ uInterval' = IF uComponent = "part_005" THEN uInterval \ {uSent}
                  ELSE uInterval
  /\ uRequest' = NoRequest
  /\ uToast' = "Upload failed"
  /\ UNCHANGED <<lifecycleVars, chatVars, lastResp, configVars, widgetVars, download, localStorage, vId, vSessionId,
                 vDocument, vAnalysis, vLoading, vIsPolling, vChatMessages,
                 vInterval, vFetch, vHist, polls, summaries, toasts, sendVars,
                 uComponent, uDragActive, uFile, uDocumentName, uDocumentType,
                 uSent, uResult, uNavigated>>

\* Any other navigation: the page unmounts (a timer still running updates no
\* state any more).
CloseUpload ==
  /\ uComponent # Closed
  /\ uRequest = NoRequest
  /\ uResult = 0
  /\ uComponent' = Closed
  /\ uDragActive' = FALSE
  /\ uFile' = NoFile
  /\ uDocumentName' = ""
  /\ uDocumentType' = ""
  /\ uIsUploading' = FALSE
  /\ uUploadProgress' = 0
  /\ uInterval' = {}
  /\ uToast' = NoToast
  /\ UNCHANGED <<lifecycleVars, chatVars, lastResp, configVars, widgetVars, download, localStorage, vId, vSessionId,
                 vDocument, vAnalysis, vLoading, vIsPolling, vChatMessages,
                 vInterval, vFetch, vHist, polls, summaries, toasts, sendVars,
                 uRequest, uSent, uResult, uNavigated>>

\* The progress timer of one attempt fires (every 200 ms):
\* setUploadProgress(prev => prev >= 90 ? 90 : prev + Math.random() * 15),
\* the timer clearing itself in the first case.  Math.random() * 15 (* 10 in
\* part_004) is drawn from Increments.
Increments(c) == IF c = "part_005" THEN {7, 14} ELSE {4, 8}

ProgressTick ==
  /\ uComponent # Closed
  /\ \E i \in uInterval, inc \in Increments(uComponent) :
       IF uUploadProgress >= 90
       THEN /\ uInterval' = uInterval \ {i}
            /\ uUploadProgress' = 90
       ELSE /\ uUploadProgress' = uUploadProgress + inc
            /\ UNCHANGED uInterval
  /\ UNCHANGED <<lifecycleVars, chatVars, lastResp, configVars, widgetVars, download, localStorage, vId, vSessionId,
                 vDocument, vAnalysis, vLoading, vIsPolling, vChatMessages,
                 vInterval, vFetch, vHist, polls, summaries, toasts, sendVars,
                 uComponent, uDragActive, uFile, uDocumentName, uDocumentType,
                 uIsUploading, uRequest, uSent, uToast, uResult, uNavigated>>

\* The setTimeout callback of a successful upload: the success toast and
\* navigate(`/document/${result.document_id}`); the page unmounts.
Redirect ==
  /\ uComponent # Closed
  /\ uResult # 0
  /\ uNavigated' = uResult
  /\ uResult' = 0
  /\ uComponent' = Closed
  /\ uDragActive' = FALSE
  /\ uFile' = NoFile
  /\ uDocumentName' = ""
  /\ uDocumentType' = ""
  /\ uIsUploading' = FALSE
  /\ uUploadProgress' = 0
  /\ uInterval' = {}
  /\ uToast' = "Upload successful"
  /\ UNCHANGED <<lifecycleVars, chatVars, lastResp, configVars, widgetVars, download, localStorage, vId, vSessionId,
                 vDocument, vAnalysis, vLoading, vIsPolling, vChatMessages,
                 vInterval, vFetch, vHist, polls, summaries, toasts, sendVars,
                 uRequest, uSent>>


\* Navigation between two /document/:id URLs (history back or forward): the
\* route element stays mounted and useParams().id changes.  The state,
\* sessionId included, is kept; the effects that depend on id run again:
\* fetchDocumentData(), fetchChatHistory() and the polling effect with the
\* document and analysis the view still holds.
MaxHist == 2

ChangeDocument ==
  /\ vId # 0
  /\ vFetch = "idle"
  /\ vHist < MaxHist
  /\ startsPolling(vDocument, vAnalysis) => InFlight(polls) < MaxInFlight
  /\ \E d \in DocIds \ {vId} :
       /\ vId' = d
       /\ IF startsPolling(vDocument, vAnalysis)
          THEN /\ polls' = Add(polls, LivePoll(d))
               /\ vInterval' = newTimer(vInterval)
               /\ vIsPolling' = TRUE
          ELSE /\ vInterval' = NoTimer
               /\ UNCHANGED <<polls, vIsPolling>>
  /\ vFetch' = "doc"
  /\ vLoading' = TRUE
  /\ vHist' = vHist + 1
  /\ UNCHANGED <<lifecycleVars, chatVars, lastResp, configVars, widgetVars, download, uploadVars, sendVars, localStorage,
                 vSessionId, vDocument, vAnalysis, vChatMessages, summaries,
                 toasts>>

\* ----------------------------------------- client: components/DocumentChat.jsx
\* useState initializer of sessionId (the same code as in DocumentAnalysis).
initWidgetSession(d, newId) ==
  IF localStorage[d] # NoItem /\ Truthy(localStorage[d])
  THEN /\ wSessionId' = localStorage[d]
       /\ UNCHANGED localStorage
  ELSE /\ wSessionId' = newId
       /\ localStorage' = [localStorage EXCEPT ![d] = newId]

widgetOthersUnchanged ==
  UNCHANGED <<lastResp, configVars, download, uploadVars, vChatInput,
              vChatLoading, vSend, typed, vId, vSessionId, vDocument, vAnalysis, vLoading, vIsPolling,
              vChatMessages, vInterval, vFetch, vHist, polls, summaries, toasts>>

\* The widget is mounted with documentId = d; its effect requests the
\* history.
WidgetMount ==
  /\ vId = 0
  /\ wId = 0
  /\ \E d \in DocIds, newId \in Sessions :
       /\ wId' = d
       /\ initWidgetSession(d, newId)
       /\ wHist' = {d}
  /\ wChatInput' = NoText
  /\ wChatLoading' = FALSE
  /\ wChatMessages' = <<>>
  /\ wSends' = {}
  /\ UNCHANGED <<lifecycleVars, chatVars, postText>>
  /\ widgetOthersUnchanged

\* Unmounting: the requests in flight go on, their state updates are dropped.
WidgetUnmount ==
  /\ wId # 0
  /\ wId' = 0
  /\ wSessionId' = ""
  /\ wChatInput' = NoText
  /\ wChatLoading' = FALSE
  /\ wChatMessages' = <<>>
  /\ wHist' = {}
  /\ wSends' = {}
  /\ UNCHANGED <<lifecycleVars, chatVars, localStorage, postText>>
  /\ widgetOthersUnchanged

\* The documentId prop changes: the state, sessionId included, is kept and
\* the effect on [documentId, sessionId] requests the history again.
WidgetChangeDocument ==
  /\ wId # 0
  /\ \E d \in DocIds \ {wId} :
       /\ wId' = d
       /\ wHist' = wHist \cup {d}
  /\ UNCHANGED <<lifecycleVars, chatVars, localStorage, postText, wSessionId,
                 wChatInput, wChatLoading, wChatMessages, wSends>>
  /\ widgetOthersUnchanged

\* getChatHistory(documentId, sessionId).then(setChatMessages).catch(() => {})
WidgetHistArrives ==
  /\ wId # 0
  /\ \E d \in wHist :
       /\ wHist' = wHist \ {d}
       /\ LET r == getChatHistory(d, wSessionId) IN
            wChatMessages' = IF r.ok THEN r.data.hist ELSE wChatMessages
  /\ UNCHANGED <<lifecycleVars, chatVars, localStorage, postText, wId, wSessionId,
                 wChatInput, wChatLoading, wSends>>
  /\ widgetOthersUnchanged

\* onChange of the input (disabled while chatLoading); every text is typed
\* at most once.
WidgetTypeInput ==
  /\ wId # 0
  /\ ~wChatLoading
  /\ \E t \in Texts \ typed :
       /\ wChatInput' = t
       /\ typed' = typed \cup {t}
  /\ UNCHANGED <<lifecycleVars, chatVars, localStorage, postText, wId, wSessionId,
                 wChatLoading, wChatMessages, wHist, wSends>>
  /\ UNCHANGED <<lastResp, configVars, download, uploadVars, vChatInput,
                 vChatLoading, vSend, vId, vSessionId, vDocument, vAnalysis,
                 vLoading, vIsPolling, vChatMessages, vInterval, vFetch, vHist,
                 polls, summaries, toasts>>

\* The form can be submitted: the input and the submit button are disabled
\* while chatLoading.
widgetSubmitAlways == TRUE

widgetSubmit == ~wChatLoading

\* onSubmit: handleSendMessage up to its await (a blank input returns); the
\* request reaches the server, where postMessage starts (or answers 404).
WidgetSubmit ==
  /\ wId # 0
  /\ widgetSubmit
  /\ wChatInput # NoText
  /\ Len(posts) < MaxPosts
  /\ wChatLoading' = TRUE
  /\ LET k == Len(posts) + 1 IN
       /\ IF status[wId] = Absent
          THEN rejectPost(wId, wSessionId)
          ELSE appendUser(wId, wSessionId, k)
       /\ postText' = [postText EXCEPT ![k] = wChatInput]
       /\ wSends' = wSends \cup {[k |-> k, text |-> wChatInput, doc |-> wId]}
  /\ UNCHANGED <<lifecycleVars, localStorage, wId, wSessionId, wChatInput,
                 wChatMessages, wHist>>
  /\ widgetOthersUnchanged

\* handleSendMessage after its await: the user message and the response are
\* appended and the input cleared, or (catch) nothing; finally chatLoading is
\* reset.
widgetSettled(r, ok) ==
  /\ wSends' = wSends \ {r}
  /\ wChatMessages' =
       IF ok
       THEN wChatMessages \o
              <<ChatMessage(r.doc, wSessionId, "user", 0 - r.text),
                ChatMessage(r.doc, wSessionId, "assistant", r.k)>>
       ELSE wChatMessages
  /\ wChatInput' = IF ok THEN NoText ELSE wChatInput
  /\ wChatLoading' = FALSE

WidgetResponseArrives ==
  /\ \E r \in wSends :
       /\ posts[r.k].state # "pending"
       /\ widgetSettled(r, posts[r.k].state = "done")
  /\ UNCHANGED <<lifecycleVars, chatVars, localStorage, postText, wId,
                 wSessionId, wHist>>
  /\ widgetOthersUnchanged

\* The axios timeout or a network error ends the request at the client.
WidgetSendTimesOut ==
  /\ \E r \in wSends : widgetSettled(r, FALSE)
  /\ UNCHANGED <<lifecycleVars, chatVars, localStorage, postText, wId,
                 wSessionId, wHist>>
  /\ widgetOthersUnchanged

\* ------------------------------------------- client: components/Dashboard.jsx
\* The summaries collection.  addDoc gives each record an identifier that
\* Firestore generates; doc(db, "summaries", documentId) names the record
\* whose identifier is documentId.
AutoId(d, n) == [auto |-> TRUE, doc |-> d, n |-> n]
DocKey(d) == [auto |-> FALSE, doc |-> d, n |-> 0]

SummaryDocs ==
  UNION {{[id |-> AutoId(d, n), documentId |-> d] : n \in 1..summaries[d]} :
           d \in DocIds}

getDoc(key) == {r \in SummaryDocs : r.id = key}

NoDownload == [doc |-> 0, toast |-> "none", exported |-> 0]

\* handleDownload(documentId, documentName): the record is read and exported,
\* or the "Summary not found" toast is shown.
handleDownload(documentId) ==
  LET summaryDoc == getDoc(DocKey(documentId)) IN
    IF summaryDoc = {}
    THEN download' = [doc |-> documentId, toast |-> "Download Failed",
                      exported |-> 0]
    ELSE download' = [doc |-> documentId, toast |-> "Download Successful",
                      exported |-> (CHOOSE r \in summaryDoc : TRUE).documentId]

HandleDownload ==
  /\ vId = 0
  /\ \E d \in docs : handleDownload(d)
  /\ UNCHANGED <<lifecycleVars, chatVars, lastResp, configVars, widgetVars, uploadVars, sendVars, localStorage, vId,
                 vSessionId, vDocument, vAnalysis, vLoading, vIsPolling,
                 vChatMessages, vInterval, vFetch, vHist, polls, summaries,
                 toasts>>

\* What the view renders (the early returns and the overview/progress card).
Presentation ==
  IF vLoading THEN "loading"
  ELSE IF vDocument = Null THEN "notFound"
  ELSE IF vAnalysis THEN "analysis"
  ELSE "inProgress"

PollingHint == Presentation = "inProgress" /\ vIsPolling

\* ----------------------------------------------------------- specifications
Init ==
  /\ nextId = 1
  /\ status = [d \in DocIds |-> Absent]
  /\ analyses = {}
  /\ call = [d \in DocIds |-> "none"]
  /\ chat = <<>>
  /\ posts = <<>>
  /\ overlap = {}
  /\ lastResp = NoResp
  /\ localStorage = [d \in DocIds |-> NoItem]
  /\ vId = 0
  /\ vSessionId = ""
  /\ vDocument = Null
  /\ vAnalysis = FALSE
  /\ vLoading = FALSE
  /\ vIsPolling = FALSE
  /\ vChatMessages = <<>>
  /\ vInterval = NoTimer
  /\ vFetch = "idle"
  /\ vHist = 0
  /\ polls = [p \in PollKinds |-> 0]
  /\ summaries = [d \in DocIds |-> 0]
  /\ toasts = 0
  /\ vChatInput = NoText
  /\ vChatLoading = FALSE
  /\ vSend = NoSend
  /\ postText = [k \in 1..MaxPosts |-> NoText]
  /\ typed = {}
  /\ wId = 0
  /\ wSessionId = ""
  /\ wChatInput = NoText
  /\ wChatLoading = FALSE
  /\ wChatMessages = <<>>
  /\ wHist = {}
  /\ wSends = {}
  /\ download = NoDownload
  /\ rawBackendUrl = <<>>
  /\ BACKEND_URL = <<>>
  /\ API = Str("/api")
  /\ uComponent = Closed
  /\ uDragActive = FALSE
  /\ uFile = NoFile
  /\ uDocumentName = ""
  /\ uDocumentType = ""
  /\ uIsUploading = FALSE
  /\ uUploadProgress = 0
  /\ uInterval = {}
  /\ uRequest = NoRequest
  /\ uSent = 0
  /\ uToast = NoToast
  /\ uResult = 0
  /\ uNavigated = 0

\* The document lifecycle and the clients that read it.
Next ==
  \/ CreateDocument
  \/ CreateDocumentExtractionFailed
  \/ StartAnalysis
  \/ AnalysisSucceeds
  \/ AnalysisFails
  \/ AnalysisTimeout
  \/ DeleteDocument
  \/ GetDocument
  \/ GetAnalysis

Spec == Init /\ [][Next]_vars

\* The lifecycle with every request of the API contract.
ContractNext ==
  \/ CreateDocument
  \/ CreateDocumentExtractionFailed
  \/ StartAnalysis
  \/ AnalysisSucceeds
  \/ AnalysisFails
  \/ AnalysisTimeout
  \/ DeleteDocument
  \/ GetDocument
  \/ GetAnalysis
  \/ Analyze

ContractSpec == Init /\ [][ContractNext]_vars

\* The bounded wait of the collaborator call always ends.
LiveSpec == Spec /\ WF_vars(AnalysisTimeout)

\* The chat threads of the stored documents and the clients that use them.
\* A chat request reads no status, only whether the document exists, so the
\* status transitions are left out here.
ChatNext ==
  \/ CreateDocument
  \/ DeleteDocument
  \/ SendMessageNotFound
  \/ SendMessageArrives
  \/ SendMessageReplied
  \/ SendMessageFailed

ChatSpec == Init /\ [][ChatNext]_vars

\* The document lifecycle and one DocumentAnalysis view that follows it.
ViewNext ==
  \/ CreateDocument
  \/ CreateDocumentExtractionFailed
  \/ StartAnalysis
  \/ AnalysisSucceeds
  \/ AnalysisFails
  \/ AnalysisTimeout
  \/ DeleteDocument
  \/ Mount
  \/ Unmount
  \/ FetchDocArrives
  \/ FetchAnalysisArrives
  \/ FetchHistoryArrives
  \/ HistArrives
  \/ TimerTick
  \/ PollDocArrives
  \/ PollAnalysisArrives
  \/ PollSaved

ViewSpec == Init /\ [][ViewNext]_vars

\* One DocumentAnalysis view and its chat sidebar.
SidebarNext ==
  \/ CreateDocument
  \/ DeleteDocument
  \/ Mount
  \/ Unmount
  \/ FetchDocArrives
  \/ HistArrives
  \/ TypeInput
  \/ HandleSendMessage
  \/ ViewSendArrives
  \/ SendMessageReplied
  \/ SendMessageFailed
  \/ SendResponseArrives
  \/ SendTimesOut

SidebarSpec == Init /\ [][SidebarNext]_vars

\* The configuration of the client bundle.
ConfigNext ==
  \/ LoadConfig

ConfigSpec == Init /\ [][ConfigNext]_vars

\* The UploadDocument page and the documents it creates.
UploadNext ==
  \/ OpenUpload
  \/ HandleDrag
  \/ HandleDrop
  \/ HandleFileInput
  \/ RemoveFile
  \/ EditForm
  \/ HandleUpload
  \/ UploadSucceeds
  \/ UploadFails
  \/ Redirect
  \/ CloseUpload

UploadSpec == Init /\ [][UploadNext]_vars

\* The whole Document Store: the lifecycle of the documents together with
\* their chat threads.
StoreNext ==
  \/ CreateDocument
  \/ CreateDocumentExtractionFailed
  \/ StartAnalysis
  \/ AnalysisSucceeds
  \/ AnalysisFails
  \/ AnalysisTimeout
  \/ DeleteDocument
  \/ SendMessageNotFound
  \/ SendMessageArrives
  \/ SendMessageReplied
  \/ SendMessageFailed

StoreSpec == Init /\ [][StoreNext]_vars


\* One view of a document that is analyzed and stays retrievable, over a
\* connection on which a getAnalysis request can fail.  Every response
\* arrives and a running timer ticks.
FlakyNext ==
  \/ CreateDocument
  \/ StartAnalysis
  \/ AnalysisSucceeds
  \/ Mount
  \/ FetchDocArrives
  \/ FetchAnalysisArrives
  \/ FetchAnalysisFails
  \/ FetchHistoryArrives
  \/ HistArrives
  \/ TimerTick
  \/ PollDocArrives
  \/ PollAnalysisArrives
  \/ PollAnalysisFails
  \/ PollSaved

FlakySpec ==
  /\ Init /\ [][FlakyNext]_vars
  /\ WF_vars(FetchDocArrives)
  /\ WF_vars(FetchAnalysisArrives)
  /\ WF_vars(FetchHistoryArrives)
  /\ WF_vars(HistArrives)
  /\ WF_vars(TimerTick)
  /\ WF_vars(PollDocArrives)
  /\ WF_vars(PollAnalysisArrives)
  /\ WF_vars(PollSaved)


\* The two chat views of the client, one mounted at a time (the sidebar of
\* DocumentAnalysis and the DocumentChat widget), and their send requests.
SendNext ==
  \/ CreateDocument
  \/ Mount
  \/ Unmount
  \/ FetchDocArrives
  \/ TypeInput
  \/ HandleSendMessage
  \/ ViewSendArrives
  \/ SendMessageReplied
  \/ SendMessageFailed
  \/ SendResponseArrives
  \/ SendTimesOut
  \/ WidgetMount
  \/ WidgetUnmount
  \/ WidgetTypeInput
  \/ WidgetSubmit
  \/ WidgetResponseArrives
  \/ WidgetSendTimesOut

SendSpec == Init /\ [][SendNext]_vars

\* The two chat views, their session identifiers and the documents they are
\* shown for.  Every request is answered.
SessionNext ==
  \/ CreateDocument
  \/ Mount
  \/ Unmount
  \/ ChangeDocument
  \/ FetchDocArrives
  \/ HistArrives
  \/ TypeInput
  \/ HandleSendMessage
  \/ ViewSendArrives
  \/ SendMessageReplied
  \/ SendResponseArrives
  \/ WidgetMount
  \/ WidgetUnmount
  \/ WidgetChangeDocument
  \/ WidgetHistArrives
  \/ WidgetTypeInput
  \/ WidgetSubmit
  \/ WidgetResponseArrives

SessionSpec == Init /\ [][SessionNext]_vars


\* One view that polls until it has saved the summary, and the Dashboard
\* that downloads it.
SummaryNext ==
  \/ CreateDocument
  \/ StartAnalysis
  \/ AnalysisSucceeds
  \/ Mount
  \/ Unmount
  \/ FetchDocArrives
  \/ FetchAnalysisArrives
  \/ FetchHistoryArrives
  \/ HistArrives
  \/ TimerTick
  \/ PollDocArrives
  \/ PollAnalysisArrives
  \/ PollSaved
  \/ HandleDownload

SummarySpec == Init /\ [][SummaryNext]_vars


\* The upload attempts of the page with their simulated progress.
ProgressNext ==
  \/ OpenUpload
  \/ HandleFileInput
  \/ EditForm
  \/ HandleUpload
  \/ UploadSucceeds
  \/ UploadFails
  \/ ProgressTick
  \/ Redirect
  \/ CloseUpload

ProgressSpec == Init /\ [][ProgressNext]_vars

\* ------------------------------------------------------------------ claims
ForwardSteps ==
  {<<"uploaded", "analyzing">>, <<"analyzing", "analyzed">>,
   <<"uploaded", "error">>, <<"analyzing", "error">>}

\* C1: a stored document's status changes only along uploaded -> analyzing ->
\* analyzed or into error; a document is created as uploaded (or as error when
\* extraction failed); analyzed and error are never left while the document
\* exists.
C1_StatusMovesForward ==
  [][\A d \in DocIds :
       /\ (status[d] # Absent /\ status'[d] # Absent /\ status'[d] # status[d])
            => <<status[d], status'[d]>> \in ForwardSteps
       /\ (status[d] = Absent /\ status'[d] # Absent)
            => status'[d] \in {"uploaded", "error"}]_vars

C1_Witness ==
  \E d, e \in DocIds :
    /\ status[d] = "analyzed" /\ call[d] = "ok"
    /\ status[e] = "error" /\ call[e] = "failed"

\* C2: in every state, what a reader gets from getDocument and getAnalysis
\* agrees with the store and with each other: the status is analyzed exactly
\* when the Analysis record exists.
C2_AnalyzedIffAnalysis ==
  \A d \in DocIds :
    /\ (status[d] = "analyzed") <=> (d \in analyses)
    /\ (getDocument(d).ok /\ getDocument(d).data.status = "analyzed")
         <=> getAnalysis(d).ok

C2_Witness ==
  \E d, e \in DocIds :
    /\ status[d] = "analyzed" /\ d \in analyses
    /\ status[e] = "analyzing" /\ e \notin analyses

\* C3: a getAnalysis call returns the document's Analysis when the status is
\* analyzed, and fails with the 404 error when the document exists with
\* status uploaded, analyzing or error.
C3_GetAnalysisMatchesStatus ==
  [][\A d \in DocIds :
       CallGetAnalysis(d) =>
         /\ status[d] = "analyzed" =>
              lastResp'.ok /\ lastResp'.data.analysis = d
         /\ status[d] \in {"uploaded", "analyzing", "error"} =>
              ~lastResp'.ok /\ lastResp'.error = "Resource not found"]_vars

C3_Witness ==
  /\ lastResp.op = "getAnalysis"
  /\ lastResp.ok
  /\ status[lastResp.doc] = "analyzed"
  /\ \E e \in DocIds : status[e] \in {"uploaded", "analyzing", "error"}

\* C4: a document that is analyzing does not stay analyzing forever: it
\* becomes analyzed or error (by the timeout at the latest), unless it is
\* deleted first.
C4_AnalyzingEnds ==
  \A d \in DocIds :
    (status[d] = "analyzing") ~> (status[d] \in {"analyzed", "error", Absent})

C4_Witness ==
  \E d \in DocIds : status[d] = "error" /\ call[d] = "timeout"

\* C6: a getDocument call made for a validly uploaded document whose
\* collaborator call has not ended (not started, or still pending) returns
\* status uploaded or analyzing.
C6_NotAnalyzedBeforeResponse ==
  [][\A d \in DocIds :
       (CallGetDocument(d) /\ call[d] \in {"notCalled", "pending"}) =>
         /\ lastResp'.ok
         /\ lastResp'.data.status \in {"uploaded", "analyzing"}]_vars

C6_Witness ==
  /\ lastResp.op = "getDocument"
  /\ lastResp.ok
  /\ lastResp.data.status = "analyzing"
  /\ call[lastResp.doc] = "pending"

\* What getHistory returns to a client that asks with session identifier s.
History(d, s) == getChatHistory(d, s).data.hist

IsPrefix(a, b) == Len(a) <= Len(b) /\ SubSeq(b, 1, Len(a)) = a

\* The messages n successful, non-overlapping posts on (d, s) leave, in
\* arrival order.
RECURSIVE Exchanges(_, _, _)
Exchanges(d, s, k) ==
  IF k > Len(posts) THEN <<>>
  ELSE (IF posts[k].doc = d /\ posts[k].session = s /\ posts[k].state = "done"
        THEN <<ChatMessage(d, s, "user", k), ChatMessage(d, s, "assistant", k)>>
        ELSE <<>>) \o Exchanges(d, s, k + 1)

Sequential(d, s) ==
  /\ <<d, s>> \notin overlap
  /\ \A k \in postsOn(d, s) : posts[k].state \in {"done", "notFound"}

\* C7: when every post on (d, s) so far succeeded and no two of them
\* overlapped, getHistory(d, s) is exactly user k, assistant k for each post k
\* in arrival order (2n messages for n posts).
C7_RoundTrip ==
  \A d \in docs, s \in Sessions :
    Sequential(d, s) =>
      /\ getChatHistory(d, s).ok
      /\ History(d, s) = Exchanges(d, s, 1)

\* C8: for two distinct session identifiers on one document, no message
\* posted under one is in the history of the other, and a history changes
\* only by a post of its own session.
NoLeak ==
  \A d \in docs, s1, s2 \in Sessions :
    s1 # s2 => \A i \in DOMAIN History(d, s2) : History(d, s2)[i].session_id # s1

ChangedPosts ==
  {k \in DOMAIN posts' : k \notin DOMAIN posts \/ posts'[k] # posts[k]}

C8_SessionsIsolated ==
  [][/\ NoLeak'
     /\ \A d \in DocIds, s \in Sessions :
          (status[d] # Absent /\ status'[d] # Absent
             /\ History(d, s)' # History(d, s)) =>
            \E k \in ChangedPosts :
              posts'[k].doc = d /\ posts'[k].session = s]_vars

\* C9: while a document exists, each step leaves every history of it a
\* prefix of what it is afterwards: messages are only appended.
C9_AppendOnly ==
  [][\A d \in DocIds, s \in Sessions :
       (status[d] # Absent /\ status'[d] # Absent) =>
         IsPrefix(History(d, s), History(d, s)')]_vars

C9_Witness ==
  \E k, j \in DOMAIN posts :
    /\ posts[k].state = "failed"
    /\ posts[j].state = "done"
    /\ posts[k].doc = posts[j].doc
    /\ posts[k].doc \in docs
    /\ Len(History(posts[k].doc, posts[k].session)) >= 2

\* C10: in every history a reader can get, also while posts on the same
\* (document, session) overlap: no message occurs twice, every assistant
\* reply comes after the user message it answers, a completed post has its
\* reply in the history and an unanswered one has none.
C10_RepliesFollowTheirMessage ==
  \A d \in docs, s \in Sessions :
    LET h == History(d, s) IN
    /\ \A i, j \in DOMAIN h : i # j => h[i] # h[j]
    /\ \A i \in DOMAIN h :
         h[i].message_type = "assistant" =>
           \E j \in 1..(i - 1) :
             /\ h[j].message_type = "user"
             /\ h[j].message = h[i].message
             /\ h[j].session_id = h[i].session_id
    /\ \A k \in postsOn(d, s) :
         (posts[k].state = "done") <=>
           (\E i \in DOMAIN h : h[i] = ChatMessage(d, s, "assistant", k))

C10_Witness ==
  \E d \in docs, s \in Sessions :
    /\ <<d, s>> \in overlap
    /\ Cardinality(postsOn(d, s)) >= 2
    /\ \A k \in postsOn(d, s) : posts[k].state = "done"

\* C5: what the mounted view presents follows the polled status: with status
\* error it does not show "Analysis in Progress" and polls no more (no timer,
\* no poll in flight); with status uploaded or analyzing it shows the
\* progress card; the analysis is shown only for status analyzed.
C5_StatusDecidesPresentation ==
  (vId # 0 /\ ~vLoading /\ vDocument # Null) =>
    /\ vDocument = "error" =>
         /\ Presentation # "inProgress"
         /\ ~PollingHint
         /\ vInterval = NoTimer
         /\ \A p \in PollKinds : p.live => polls[p] = 0
    /\ vDocument \in {"uploaded", "analyzing"} => Presentation = "inProgress"
    /\ Presentation = "analysis" => vDocument = "analyzed"

\* The records of document d in the store.
Records(d) ==
  [status |-> status[d], analysis |-> d \in analyses, chat |-> Filter(chat, d, {})]

Deleted(d) == d < nextId /\ status[d] = Absent

Gone(d) ==
  /\ d \notin docs
  /\ Records(d) = [status |-> Absent, analysis |-> FALSE, chat |-> <<>>]
  /\ ~getDocument(d).ok /\ getDocument(d).error = "Resource not found"
  /\ ~getAnalysis(d).ok /\ getAnalysis(d).error = "Resource not found"
  /\ \A s \in Sessions :
       ~getChatHistory(d, s).ok /\ getChatHistory(d, s).error = "Resource not found"

\* C11: the step that deletes document d leaves d out of the document list,
\* without Analysis and without chat messages, and getDocument, getAnalysis
\* and getHistory (any session) of d fail with the 404 error from then on;
\* the records of every other document are what they were before the step.
C11_DeleteCascades ==
  [][\A d \in DocIds :
       /\ (status[d] # Absent /\ status'[d] = Absent) =>
            /\ Gone(d)'
            /\ \A e \in DocIds \ {d} : Records(e)' = Records(e)
       /\ Deleted(d) => Deleted(d)' /\ Gone(d)']_vars

C11_Witness ==
  \E d, e \in DocIds :
    /\ Deleted(d)
    /\ \E k \in DOMAIN posts : posts[k].doc = d /\ posts[k].state = "done"
    /\ status[e] = "analyzed"
    /\ Len(Records(e).chat) > 0

\* The persisted thread of (d, s), whatever identifier a reader asks with.
Thread(d, s) == Filter(chat, d, {s})

UserTexts(h) ==
  {i \in DOMAIN h : h[i].message_type = "user" /\ TextOf(h[i]) # NoText}

NoDuplicateUserMessage(h) ==
  \A i, j \in UserTexts(h) : i # j => TextOf(h[i]) # TextOf(h[j])

\* The text is in the input field, in the displayed messages or in the
\* persisted thread of the view's session.
TextAvailable(t) ==
  \/ vChatInput = t
  \/ \E i \in UserTexts(vChatMessages) : TextOf(vChatMessages[i]) = t
  \/ \E i \in UserTexts(Thread(vId, vSessionId)) :
       TextOf(Thread(vId, vSessionId)[i]) = t

\* A step in which handleSendMessage ends in its catch block.
SendFailedStep ==
  /\ vSend.state # "idle"
  /\ vSend' = NoSend
  /\ vId' = vId
  /\ Len(vChatMessages') <= Len(vChatMessages)

\* C12: when a send fails, the submitted text is afterwards in the input
\* field, in the displayed messages or in the persisted thread; and a text
\* the user submitted (and retried after a failure) is the text of at most
\* one user message, in every persisted thread and in the displayed
\* messages.
C12_FailedSendNotLost ==
  [][/\ \A t \in Texts : (SendFailedStep /\ vSend.text = t) => TextAvailable(t)'
     /\ \A d \in DocIds, s \in Sessions : NoDuplicateUserMessage(Thread(d, s))'
     /\ NoDuplicateUserMessage(vChatMessages)']_vars

\* A step in which a file is offered to the page by either path.
FileOffered(file) == uComponent # Closed /\ handleFile(file)

AllowedMimeTypes ==
  {"application/pdf", "application/msword",
   "application/vnd.openxmlformats-officedocument.wordprocessingml.document",
   "text/plain"}

\* C13: offered a file of an allowed type, the page selects it when its size
\* is exactly the ceiling (10 * 1024 * 1024 bytes) and shows no error; one
\* byte more and it shows "File too large" and the selection stays what it
\* was.
C13_SizeBoundary ==
  [][\A file \in Files :
       (FileOffered(file) /\ file.type \in AllowedMimeTypes) =>
         /\ file.size = 10 * 1024 * 1024 =>
              uFile' = file /\ uToast' = NoToast
         /\ file.size = 10 * 1024 * 1024 + 1 =>
              uToast' = "File too large" /\ uFile' = uFile /\ uFile' # file]_vars

C13_Witness ==
  /\ uFile # NoFile
  /\ uFile.size = 10 * 1024 * 1024
  /\ uToast = "File too large"

\* C14: a file whose MIME type is not PDF, DOC, DOCX or plain text is
\* rejected with "Invalid file type" whatever its name, dropped or picked,
\* and the selection stays what it was; the selected file always has an
\* allowed type.
C14_TypeDecides ==
  [][/\ \A file \in Files :
          (FileOffered(file) /\ file.type \notin AllowedMimeTypes) =>
            uToast' = "Invalid file type" /\ uFile' = uFile
     /\ uFile' # NoFile => uFile'.type \in AllowedMimeTypes]_vars

C14_Witness ==
  /\ uFile # NoFile
  /\ uFile.name = "lease.png"
  /\ uToast = "Invalid file type"

\* C15: a step issues an upload request only when a file that passed the
\* type and size checks is selected, the document name is not blank and a
\* document type is chosen; a handleUpload that issues none shows what is
\* missing and leaves isUploading false.
C15_UploadNeedsCompleteForm ==
  [][/\ uSent' # uSent =>
          /\ uFile # NoFile
          /\ uFile.type \in AllowedMimeTypes
          /\ uFile.size <= 10 * 1024 * 1024
          /\ ~blank(uDocumentName)
          /\ uDocumentType # ""
          /\ uRequest'.file = uFile
     /\ (HandleUpload /\ uSent' = uSent) =>
          /\ uToast' # NoToast
          /\ ~uIsUploading'
          /\ uRequest' = NoRequest]_vars

\* C16: a getAnalysis that fails for a document that exists (not analyzed
\* yet) never gives the caller the outcome a getAnalysis for a document that
\* does not exist gives.
C16_NotReadyDiffersFromMissing ==
  \A d, e \in DocIds :
    (status[d] = Absent /\ status[e] \in Statuses /\ ~getAnalysis(e).ok) =>
      /\ ~getAnalysis(d).ok
      /\ getAnalysis(d) # getAnalysis(e)

\* The steps the Lifecycle Manager takes on its own.
InternalStep ==
  StartAnalysis \/ AnalysisSucceeds \/ AnalysisFails \/ AnalysisTimeout

\* C17: the status of a stored document changes only in a step the Lifecycle
\* Manager takes on its own (after extraction, on the collaborator's
\* response, failure or timeout), never in a step that serves a request.
C17_OnlyInternalStatusChanges ==
  [][(\E d \in DocIds :
        status[d] # Absent /\ status'[d] # Absent /\ status'[d] # status[d])
       => InternalStep]_vars

\* What the caller of sendMessage gets for post k.
sendOutcome(k) ==
  responseInterceptor(
    IF posts[k].state = "notFound" THEN HttpResp(404, "", 0, <<>>)
    ELSE IF posts[k].state = "done" THEN HttpResp(200, "", 0, <<>>)
    ELSE HttpResp(500, "", 0, <<>>))

\* C18: a step in which a postMessage for a missing document is answered
\* gives its caller the 404 error and leaves the stored messages and every
\* history (any document, any session) as they were.
C18_PostToMissingAppendsNothing ==
  [][\A k \in DOMAIN posts' :
       (k \notin DOMAIN posts /\ status[posts'[k].doc] = Absent) =>
         /\ posts'[k].state = "notFound"
         /\ sendOutcome(k)' = [ok |-> FALSE, error |-> "Resource not found",
                               data |-> NoData]
         /\ chat' = chat
         /\ \A d \in DocIds, s \in Sessions :
              getChatHistory(d, s)' = getChatHistory(d, s)]_vars

C18_Witness ==
  \E k \in DOMAIN posts :
    /\ posts[k].state = "notFound"
    /\ Len(chat) > 0

\* C19: whatever REACT_APP_BACKEND_URL is, with no, one or several trailing
\* slashes, the character before the "/api" of the base URL and before the
\* "/healthz" of the health URL is not a slash.
C19_NoDoubleSlashAtJoin ==
  /\ API = BACKEND_URL \o Str("/api")
  /\ Len(BACKEND_URL) > 0 =>
       /\ API[Len(BACKEND_URL)] # "/"
       /\ healthUrl[Len(BACKEND_URL)] # "/"

\* pollForAnalysis calls of the mounted view that await getDocument.
LiveDocPolls ==
  SumOver(polls, {p \in PollKinds : p.live /\ p.stage = "doc"})

\* A step that starts a pollForAnalysis call: there are more of them in
\* flight, or the polling effect ran its polling branch (it calls
\* pollForAnalysis and sets a new timer).
PollStarted ==
  \/ LiveDocPolls' > LiveDocPolls
  \/ vInterval' \notin {NoTimer, vInterval}

\* C20: a getDocument poll of the view is started by a tick of the 3-second
\* timer, or it is the immediate first poll of a view that starts polling;
\* no poll is started by the step in which a poll's response arrives.
C20_PollsFollowTimer ==
  [][PollStarted => (TimerTick \/ (~vIsPolling /\ vIsPolling'))]_vars

\* C21: a view that has seen status analyzed without having the analysis
\* (its getAnalysis request failed or is still open) goes on asking, and
\* eventually shows the analysis.
C21_AnalysisEventuallyShown ==
  (vId # 0 /\ vDocument = "analyzed" /\ ~vAnalysis) ~> vAnalysis

\* pollForAnalysis calls, of this view or of an unmounted one, that await
\* getDocument.
DocPolls == SumOver(polls, {p \in PollKinds : p.stage = "doc"})

\* C22: once the view has the analysis, or is unmounted, no timer is set,
\* and from such a state no step starts a getDocument poll (the polls in
\* flight only finish).
C22_PollingTerminates ==
  [][/\ (vId' = 0 \/ vAnalysis') => vInterval' = NoTimer
     /\ (vId = 0 \/ vAnalysis) => DocPolls' <= DocPolls]_vars

C22_Witness ==
  /\ vId # 0
  /\ vAnalysis
  /\ vIsPolling = FALSE
  /\ LiveDocPolls > 0

\* C23: one mounted view (a behaviour with one Mount step) adds at most one
\* record to the summaries collection and shows the "Analysis Complete"
\* toast at most once.
C23_CompletionOnce ==
  /\ \A d \in DocIds : summaries[d] <= 1
  /\ toasts <= 1

\* A step in which handleSendMessage appends the response of its request.
SendSucceededStep ==
  /\ vSend.state = "atServer"
  /\ vSend' = NoSend
  /\ vId' = vId
  /\ Len(vChatMessages') > Len(vChatMessages)

\* The positions of h that show the user message with text t, the reply of
\* post k.
UserAt(h, t) ==
  {i \in DOMAIN h : h[i].message_type = "user" /\ TextOf(h[i]) = t}

ReplyAt(h, k) ==
  {i \in DOMAIN h : h[i].message_type = "assistant" /\ h[i].message = k}

\* C24: after the step in which a send succeeds, the displayed list ends
\* with the user's message followed by the assistant's reply, and shows each
\* of the two exactly once.
C24_SentPairShownOnce ==
  [][SendSucceededStep =>
       LET h == vChatMessages'
           n == Len(vChatMessages')
       IN  /\ n >= 2
           /\ ReplyAt(h, vSend.k) = {n}
           /\ UserAt(h, vSend.text) = {n - 1}]_vars

\* The messages of h that came from the server (a history or a response),
\* other than those of post k.
FromServer(h, k) == {i \in DOMAIN h : h[i].message > 0 /\ h[i].message # k}

\* C25: after the step in which a send fails, the input holds the unsent
\* text, the displayed list shows the failed message neither as the local
\* copy nor as the server's record of it, and every other message it showed
\* that came from the server is still shown.
C25_RollbackRemovesOnlyFailed ==
  [][SendFailedStep =>
       /\ vChatInput' = vSend.text
       /\ \A i \in DOMAIN vChatMessages' :
            /\ vChatMessages'[i] # userMessage(vSend.text)
            /\ vSend.k # 0 => vChatMessages'[i].message # vSend.k
       /\ \A i \in FromServer(vChatMessages, vSend.k) :
            \E j \in DOMAIN vChatMessages' :
              vChatMessages'[j] = vChatMessages[i]]_vars

\* A step in which a chat view issues a sendMessage request.
StartsViewSend ==
  /\ vSend'.state = "sent"
  /\ vChatInput # NoText
  /\ vChatInput' = NoText

StartsWidgetSend == wSends' \ wSends # {}

\* C26: a chat view with a send pending issues no second sendMessage
\* request, so at most one is in flight per view; chatLoading is true
\* exactly while the view's request is pending, hence false again after
\* every send, successful or failed.
C26_OneSendInFlight ==
  [][/\ (vChatLoading \/ vSend.state # "idle") => ~StartsViewSend
     /\ (wChatLoading \/ wSends # {}) => ~StartsWidgetSend
     /\ Cardinality(wSends') <= 1
     /\ vChatLoading' <=> (vSend'.state # "idle")
     /\ wChatLoading' <=> (wSends' # {})]_vars

C26_Witness ==
  /\ wId # 0
  /\ wChatLoading
  /\ wChatInput # NoText
  /\ \E k \in DOMAIN posts : posts[k].state = "failed"

\* C27: an identifier stored under chat_session_<d> is never replaced, and
\* a mounted chat view (analysis view or widget) shown for document d holds,
\* and so sends with its history and send requests, the identifier stored
\* for d, also after the document it is shown for changed.
C27_SessionPerDocument ==
  [][/\ \A d \in DocIds :
          localStorage[d] # NoItem => localStorage'[d] = localStorage[d]
     /\ vId' # 0 => vSessionId' = localStorage'[vId']
     /\ wId' # 0 => wSessionId' = localStorage'[wId']]_vars

\* A step in which the Dashboard's handleDownload runs for document d.
DownloadStep(d) == download' # download /\ download'.doc = d

\* C28: a download of the summary of a document for which the analysis view
\* has added a record to the summaries collection finds the record and
\* exports it ("Download Successful"), not "Summary not found".
C28_SavedSummaryIsDownloaded ==
  [][\A d \in DocIds :
       (DownloadStep(d) /\ summaries[d] > 0) =>
         /\ download'.toast = "Download Successful"
         /\ download'.exported = d]_vars

\* A step in which handleUpload ends in its catch block.
UploadFailedStep == uRequest # NoRequest /\ uToast' = "Upload failed"

\* C29: the step in which an upload attempt fails resets the uploading flag
\* and the progress, keeps the selected file and the entered fields and
\* leaves no progress timer running; while the page is not uploading the
\* progress is 0 and no timer runs, so the next attempt starts from 0.
C29_FailedUploadResetsForm ==
  [][/\ UploadFailedStep =>
          /\ ~uIsUploading'
          /\ uUploadProgress' = 0
          /\ <<uFile', uDocumentName', uDocumentType'>> =
               <<uFile, uDocumentName, uDocumentType>>
          /\ uInterval' = {}
     /\ (uComponent' # Closed /\ ~uIsUploading') =>
          /\ uUploadProgress' = 0
          /\ uInterval' = {}]_vars

\* A step in which the page navigates to the analysis view of a document.
RedirectStep == uResult # 0 /\ uNavigated' # 0 /\ uResult' = 0

\* C30: while the upload request is in flight the progress is at most 90 and
\* no step lowers it; the progress is 100 only when the request has
\* succeeded; the page navigates to /document/<id> only from progress 100,
\* with the id that upload returned.
C30_ProgressBounds ==
  [][/\ uRequest' # NoRequest => uUploadProgress' <= 90
     /\ (uRequest # NoRequest /\ uRequest' = uRequest) =>
          uUploadProgress' >= uUploadProgress
     /\ uUploadProgress' = 100 => uResult' # 0
     /\ RedirectStep => uUploadProgress = 100 /\ uNavigated' = uResult]_vars

====
